---- MODULE Spec2Model ----
(***************************************************************************)
(* A model of the openvoxel renderer wrapper: the Shader and Scene objects *)
(* of package render in its two backends, the native OpenGL one            *)
(* (render/opengl.go) and the WebGL one.  The graphics driver is the       *)
(* environment: what it answers (compile status, link status, whether an   *)
(* image decodes) is chosen nondeterministically, and every call a method  *)
(* issues to it is recorded, in order, in lastOp.calls.                    *)
(***************************************************************************)
EXTENDS Integers, Sequences, FiniteSets, TLC

VARIABLES
    backend,          \* "native" (//go:build !js) or "webgl"
    panicked,         \* TRUE once a method has panicked: the program is aborted
    lastOp,           \* the last method call: its name, argument, error and driver calls
    shaderFiles,      \* Shader.shaderFiles
    program,          \* Shader.program: 0 is nil (native) / undefined (webgl)
    everLinked,       \* history: some Link() call has returned a nil error
    linkedHandle,     \* history: the program handle of the last Link() that returned nil
    glProgramCount,   \* driver: number of program objects created so far
    glCurrentProgram, \* driver: the program last passed to UseProgram
    sceneExists,      \* NewScene has run
    vao, vbo, ebo,    \* Scene.vao, Scene.vbo, Scene.ebo: 0 is nil / undefined
    vboSize, eboSize, \* Scene.vboSize, Scene.eboSize
    tex,              \* Scene.tex: 0 is nil
    wireFrames,       \* Scene.wireFrames
    textures,         \* the texture handles NewTextureFromBytes has returned
    glObjectCount,    \* driver: number of vertex-array and buffer objects generated
    glGenCalls,       \* history: how many times allocateBuffers generated objects
    glVboLen,         \* driver: number of floats held by the vertex buffer
    glEboLen,         \* driver: number of indices held by the element buffer
    glBoundTexture,   \* driver: the texture bound to TEXTURE_2D of unit 0
    lastVerticesLen,  \* history: len(vertices) of the most recent Add* call
    lastIndicesLen,   \* history: len(indices) of the most recent AddTriangles call
    addVerticesCalls, \* history: number of AddVertices calls
    addTrianglesCalls,\* history: number of AddTriangles calls
    lastTexArg        \* history: the argument of the most recent AddTexture call

VARIABLES
    window,           \* the *Window of the program: "unset", "nil", "created", "closed"
    glfwInitialized,  \* driver: glfw.Init() has succeeded
    glInitialized,    \* driver: gl.Init() has run (native) / the context was fetched
    callbacks,        \* driver: the three GLFW callbacks are registered
    closeFlag,        \* driver: the GLFW window's should-close flag
    polling,          \* the program is inside glfw.PollEvents()
    Width, Height,    \* Window.Width, Window.Height
    pressedKeys,      \* Window.pressedKeys
    firstMouse,       \* Window.firstMouse
    lastX, lastY,     \* Window.lastX, Window.lastY (pixels)
    yaw, pitch,       \* Window.yaw, Window.pitch (twentieths of a degree)
    sensitivity,      \* Window.sensitivity (twentieths: 1 is 0.05)
    camFront,         \* Scene.cam.front, as the <<yaw, pitch>> it points along
    camMoves,         \* Scene.cam.pos, as the moves added to NewCamera's position
    clearColor,       \* Scene.clearColor: "nil" or "BgColor"
    animationFrameLock, \* WebGL: number of tokens in the animationFrameLock channel
    frameRequested,   \* WebGL: a requestAnimationFrame callback is pending
    terminateCalls,   \* driver: number of glfw.Terminate() calls
    closeCalls,       \* history: number of Window.Close() calls
    escPressed,       \* history: an Escape Press was delivered to onKeyPressed
    f10Odd,           \* history: an odd number of F10 Presses was delivered
    lastKey           \* history: <<key, action>> of the last key event

VARIABLES
    pc,               \* demo main(): the statement it is at
    frameCount,       \* demo main(): frameCount
    gridX, gridZ,     \* demo main(): x and z of the loops drawing the floor
    deferred          \* demo main(): `defer window.Close()` has been executed

VARIABLES
    operations,       \* transform.Chain: its arguments
    chained           \* transform.Chain: what the call gave, <<"none">> before it

VARIABLES
    image,            \* decodeImage: the image its bytes hold, <<>> when they hold none
    decoded,          \* decodeImage: what the call gave, <<"none">> before it
    colorArg,         \* Color: its argument, a sequence of characters
    colored           \* Color: what the call gave, <<"none">> before it

shaderVars == <<shaderFiles, program, everLinked, linkedHandle, glProgramCount,
                glCurrentProgram>>
sceneVars == <<sceneExists, vao, vbo, ebo, vboSize, eboSize, tex, wireFrames,
               textures, glObjectCount, glGenCalls, glVboLen, glEboLen,
               glBoundTexture, lastVerticesLen, lastIndicesLen, addVerticesCalls,
               addTrianglesCalls, lastTexArg>>
windowVars == <<window, glfwInitialized, glInitialized, callbacks, closeFlag, polling,
                Width, Height, pressedKeys, firstMouse, lastX, lastY, yaw, pitch,
                sensitivity, camFront, camMoves, clearColor, animationFrameLock,
                frameRequested, terminateCalls, closeCalls, escPressed, f10Odd,
                lastKey>>
demoVars == <<pc, frameCount, gridX, gridZ, deferred>>
chainVars == <<operations, chained>>
pureVars == <<image, decoded, colorArg, colored>>
vars == <<backend, panicked, lastOp, shaderVars, sceneVars, windowVars, demoVars,
          chainVars, pureVars>>

----------------------------------------------------------------------------
(* Bounds of the model *)

MaxStages == 2
MaxPrograms == 2
MaxAdds == 2
MaxTextures == 2
MaxUniformArgs == 5

\* gl.LINE and gl.FILL, the polygon modes Draw selects
GL_LINE == 6913
GL_FILL == 6914
\* floats per vertex of the layout AddVertices configures (position3 + texcoord2)
VertexStride == 5

\* len(vertices) of the AddVertices calls tried
VertexLens == {5, 12}
\* (len(vertices), len(indices)) of the AddTriangles calls tried
TriangleLens == {<<8, 0>>, <<8, 3>>, <<16, 6>>}

Backends == {"native", "webgl"}
\* a shader source either compiles on the driver or it does not
Sources == {"valid.glsl", "invalid.glsl"}
\* uniform names, standing for the locations the driver looks up
UniformNames == {"view", "renderTime"}

ErrNil == "nil"
ErrShaderNotLinked == "shader: invalid state: uniform called before Link()"
ErrArgCount == "invalid argument count"
ErrCompile == "Failed to compile shader"
ErrLink == "Failed to create shader program"
ErrDecode == "image: unknown format"
PanicNotLinked == "shader program not linked; call Shader.Link() first"

\* one driver call: its name and its main argument (or the value it answers)
Call(fn, arg) == <<fn, arg>>

\* the record of one method call
Op(op, arg, err, calls, pre) ==
    [op |-> op, arg |-> arg, err |-> err, calls |-> calls, pre |-> pre]

\* the driver calls of a method call, by name
CallsNamed(calls, fns) == SelectSeq(calls, LAMBDA c : c[1] \in fns)

----------------------------------------------------------------------------
(* Window, demo program and transform.Chain: bounds, constants, initial values *)

MaxCloses == 2
MaxMoves == 2
MaxFrames == 2
MaxChain == 3

\* w.sensitivity = 0.05, the 0.1 step of F1 / F2 and the limit 5, in twentieths
SensitivityDefault == 1
SensitivityStep == 2
SensitivityMax == 100
\* the pitch limit 89.0, in twentieths of a degree
PitchMax == 1780
\* 360 degrees in twentieths of a degree
FullTurn == 7200
\* NewCamera's front {0, 0, -1} is the direction of yaw -90 (270), pitch 0
NewCameraYaw == 5400
\* winWidth and winHeight of the demo
DemoWidth == 1920
DemoHeight == 768
\* the floor loops of the demo: for x := -10; x < 10; x++ (and the same for z)
GridSide == 10
\* len(cube) of the demo: 36 vertices of 5 floats
CubeLen == 180

KeyEscape == "Escape"
KeyF10 == "F10"
KeyF1 == "F1"
KeyF2 == "F2"
KeyW == "W"
KeyS == "S"
KeyA == "A"
KeyD == "D"
KeySpace == "Space"
Press == "Press"
Release == "Release"
Repeat == "Repeat"
KeyActions == {Press, Release, Repeat}

ErrGlfwInit == "glfw: initialization failed"
ErrCreateWindow == "glfw: window creation failed"
PanicNilWindow == "runtime error: invalid memory address or nil pointer dereference"
PanicChain == "transform.Chain: at least one operation required for chaining"

WindowInit ==
    /\ window = "unset"
    /\ glfwInitialized = FALSE /\ glInitialized = FALSE /\ callbacks = FALSE
    /\ closeFlag = FALSE
    /\ polling = FALSE
    /\ Width = 0 /\ Height = 0
    /\ pressedKeys = {}
    /\ firstMouse = FALSE
    /\ lastX = 0 /\ lastY = 0 /\ yaw = 0 /\ pitch = 0
    /\ sensitivity = 0
    /\ camFront = <<NewCameraYaw, 0>>
    /\ camMoves = <<>>
    /\ clearColor = "nil"
    /\ animationFrameLock = 0 /\ frameRequested = FALSE
    /\ terminateCalls = 0 /\ closeCalls = 0
    /\ escPressed = FALSE /\ f10Odd = FALSE
    /\ lastKey = <<"none", "none">>

\* no demo main() is running
DemoIdle ==
    /\ pc = "idle"
    /\ frameCount = 0
    /\ gridX = 0 /\ gridZ = 0
    /\ deferred = FALSE

\* transform.Chain has not been called
ChainIdle ==
    /\ operations = <<>>
    /\ chained = <<"none">>

\* decodeImage and Color have not been called
PureIdle ==
    /\ image = <<>>
    /\ decoded = <<"none">>
    /\ colorArg = <<>>
    /\ colored = <<"none">>

----------------------------------------------------------------------------
(* Shader *)

shaderSource(src, shaderType) == [src |-> src, shaderType |-> shaderType]

\* a nil check that only recognises a null handle, never the zero value
NotLinked_NullOnly(p) == p < 0

\* s.program == nil (native); s.program.IsNull() || s.program.IsUndefined() (webgl)
NotLinked(p) == p = 0

\* the switch without its default case: any longer list is sent as 4 components
UniformDispatch_NoDefault(suffix, n, name) ==
    CASE n = 1 -> <<Call("Uniform1" \o suffix, name)>>
      [] n = 2 -> <<Call("Uniform2" \o suffix, name)>>
      [] n = 3 -> <<Call("Uniform3" \o suffix, name)>>
      [] OTHER -> <<Call("Uniform4" \o suffix, name)>>

\* the switch on len(v) of UniformInts / UniformFloats
UniformDispatch(suffix, n, name) ==
    CASE n = 1 -> <<Call("Uniform1" \o suffix, name)>>
      [] n = 2 -> <<Call("Uniform2" \o suffix, name)>>
      [] n = 3 -> <<Call("Uniform3" \o suffix, name)>>
      [] n = 4 -> <<Call("Uniform4" \o suffix, name)>>
      [] OTHER -> <<>>

UniformErr(n) == IF n \in 1..4 THEN ErrNil ELSE ErrArgCount

\* UniformInts / UniformFloats on a shader whose program is p: error and calls
UniformValues(p, suffix, name, n) ==
    IF NotLinked(p)
    THEN [err |-> ErrShaderNotLinked, calls |-> <<>>]
    ELSE [err |-> UniformErr(n),
          calls |-> <<Call("GetUniformLocation", p)>> \o UniformDispatch(suffix, n, name)]

\* UniformTransformation on a shader whose program is p: error and calls
UniformMatrix(p, name) ==
    IF NotLinked(p)
    THEN [err |-> ErrShaderNotLinked, calls |-> <<>>]
    ELSE [err |-> ErrNil,
          calls |-> <<Call("GetUniformLocation", p), Call("UniformMatrix4fv", name)>>]

VertexShader(src) ==
    /\ ~panicked
    /\ Len(shaderFiles) < MaxStages
    /\ shaderFiles' = Append(shaderFiles, shaderSource(src, "VERTEX_SHADER"))
    /\ lastOp' = Op("VertexShader", Len(shaderFiles) + 1, ErrNil, <<>>, program)
    /\ UNCHANGED <<backend, panicked, program, everLinked, linkedHandle,
                   glProgramCount, glCurrentProgram, sceneVars>>

FragmentShader(src) ==
    /\ ~panicked
    /\ Len(shaderFiles) < MaxStages
    /\ shaderFiles' = Append(shaderFiles, shaderSource(src, "FRAGMENT_SHADER"))
    /\ lastOp' = Op("FragmentShader", Len(shaderFiles) + 1, ErrNil, <<>>, program)
    /\ UNCHANGED <<backend, panicked, program, everLinked, linkedHandle,
                   glProgramCount, glCurrentProgram, sceneVars>>

UniformInts(name, n) ==
    /\ ~panicked
    /\ lastOp' = LET r == UniformValues(program, "i", name, n)
                 IN Op("UniformInts", n, r.err, r.calls, program)
    /\ UNCHANGED <<backend, panicked, shaderVars, sceneVars>>

UniformFloats(name, n) ==
    /\ ~panicked
    /\ lastOp' = LET r == UniformValues(program, "f", name, n)
                 IN Op("UniformFloats", n, r.err, r.calls, program)
    /\ UNCHANGED <<backend, panicked, shaderVars, sceneVars>>

UniformTransformation(name) ==
    /\ ~panicked
    /\ lastOp' = LET r == UniformMatrix(program, name)
                 IN Op("UniformTransformation", 16, r.err, r.calls, program)
    /\ UNCHANGED <<backend, panicked, shaderVars, sceneVars>>

\* the driver's answer to COMPILE_STATUS for a source
CompileStatus(file) == IF file.src = "valid.glsl" THEN 1 ELSE 0

\* compileShader of stage i: the calls it issues; the failure path also
\* fetches the info log (native)
compileShader(i) ==
    LET status == CompileStatus(shaderFiles[i])
        common == <<Call("CreateShader", i), Call("ShaderSource", i),
                    Call("CompileShader", i), Call("GetShaderiv", status)>>
    IN [ok |-> status = 1,
        calls |-> IF status = 1 THEN common
                  ELSE common \o <<Call("GetShaderInfoLog", i)>>]

\* the index of the first stage that fails to compile, 0 when all compile
FirstFailing ==
    LET bad == {i \in 1..Len(shaderFiles) : ~compileShader(i).ok}
    IN IF bad = {} THEN 0 ELSE CHOOSE i \in bad : \A j \in bad : i <= j

RECURSIVE CompileCalls(_)
\* the calls of compiling stages 1..k in order
CompileCalls(k) ==
    IF k = 0 THEN <<>> ELSE CompileCalls(k - 1) \o compileShader(k).calls

RECURSIVE PerStage(_, _)
\* one call named fn per compiled stage 1..k
PerStage(fn, k) ==
    IF k = 0 THEN <<>> ELSE PerStage(fn, k - 1) \o <<Call(fn, k)>>

\* linkProgram: the driver answers `status` to LINK_STATUS for new program p.
\* The native backend returns an error when the status is false; the WebGL
\* backend logs the status and returns the program with a nil error.
linkProgram(p, status) ==
    LET n == Len(shaderFiles)
        linking == <<Call("CreateProgram", p)>> \o PerStage("AttachShader", n)
                   \o <<Call("LinkProgram", p), Call("GetProgramiv", status)>>
    IN IF backend = "native"
       THEN IF status = 0
            THEN [err |-> ErrLink, p |-> 0,
                  calls |-> linking \o <<Call("GetProgramInfoLog", p)>>]
            ELSE [err |-> ErrNil, p |-> p,
                  calls |-> linking \o PerStage("DeleteShader", n)]
       ELSE [err |-> ErrNil, p |-> p, calls |-> linking]

\* the program handle stored whatever linkProgram returned
LinkResult_Always(pre, r) == r.p

\* the tail of Link: an error returns before s.program is assigned
LinkResult(pre, r) == IF r.err # ErrNil THEN pre ELSE r.p

\* Shader.Link with the driver answering `status` to the LINK_STATUS query
Link(status) ==
    /\ ~panicked
    /\ glProgramCount < MaxPrograms
    /\ IF FirstFailing # 0
       THEN /\ lastOp' = Op("Link", Len(shaderFiles), ErrCompile,
                            CompileCalls(FirstFailing), program)
            /\ UNCHANGED <<program, everLinked, linkedHandle, glProgramCount>>
       ELSE LET r == linkProgram(glProgramCount + 1, status)
            IN /\ glProgramCount' = glProgramCount + 1
               /\ lastOp' = Op("Link", Len(shaderFiles), r.err,
                               CompileCalls(Len(shaderFiles)) \o r.calls, program)
               /\ program' = LinkResult(program, r)
               /\ IF r.err # ErrNil
                  THEN UNCHANGED <<everLinked, linkedHandle>>
                  ELSE /\ everLinked' = TRUE
                       /\ linkedHandle' = r.p
    /\ UNCHANGED <<backend, panicked, shaderFiles, glCurrentProgram, sceneVars>>

\* Use without the nil check: the handle is bound whatever it is
Use_NoCheck ==
    /\ ~panicked
    /\ glCurrentProgram' = program
    /\ lastOp' = Op("Use", 0, ErrNil, <<Call("UseProgram", program)>>, program)
    /\ UNCHANGED <<backend, panicked, shaderFiles, program, everLinked, linkedHandle,
                   glProgramCount, sceneVars>>

\* Shader.Use: panics on a nil program, else gl.UseProgram(*s.program)
Use ==
    /\ ~panicked
    /\ IF NotLinked(program)
       THEN /\ panicked' = TRUE
            /\ lastOp' = Op("Use", 0, PanicNotLinked, <<>>, program)
            /\ UNCHANGED glCurrentProgram
       ELSE /\ glCurrentProgram' = program
            /\ lastOp' = Op("Use", 0, ErrNil, <<Call("UseProgram", program)>>, program)
            /\ UNCHANGED panicked
    /\ UNCHANGED <<backend, shaderFiles, program, everLinked, linkedHandle,
                   glProgramCount, sceneVars>>

----------------------------------------------------------------------------
(* Specification of the Shader life cycle *)

ShaderInit ==
    /\ shaderFiles = <<>>
    /\ program = 0
    /\ everLinked = FALSE
    /\ linkedHandle = 0
    /\ glProgramCount = 0
    /\ glCurrentProgram = 0

SceneInit ==
    /\ sceneExists = FALSE
    /\ vao = 0 /\ vbo = 0 /\ ebo = 0
    /\ vboSize = 0 /\ eboSize = 0
    /\ tex = 0
    /\ wireFrames = FALSE
    /\ textures = {}
    /\ glObjectCount = 0
    /\ glGenCalls = 0
    /\ glVboLen = 0 /\ glEboLen = 0
    /\ glBoundTexture = 0
    /\ lastVerticesLen = 0 /\ lastIndicesLen = 0
    /\ addVerticesCalls = 0 /\ addTrianglesCalls = 0
    /\ lastTexArg = 0

Init ==
    /\ backend \in Backends
    /\ panicked = FALSE
    /\ lastOp = Op("new", 0, ErrNil, <<>>, 0)
    /\ ShaderInit
    /\ SceneInit
    /\ WindowInit
    /\ DemoIdle
    /\ ChainIdle
    /\ PureIdle

\* the variables the Shader and Scene methods leave alone
otherVars == <<windowVars, demoVars, chainVars, pureVars>>

Next ==
    \/ \E src \in Sources : VertexShader(src) /\ UNCHANGED otherVars
    \/ \E src \in Sources : FragmentShader(src) /\ UNCHANGED otherVars
    \/ \E status \in {0, 1} : Link(status) /\ UNCHANGED otherVars
    \/ \E name \in UniformNames, n \in 0..MaxUniformArgs :
          UniformInts(name, n) /\ UNCHANGED otherVars
    \/ \E name \in UniformNames, n \in 0..MaxUniformArgs :
          UniformFloats(name, n) /\ UNCHANGED otherVars
    \/ \E name \in UniformNames : UniformTransformation(name) /\ UNCHANGED otherVars
    \/ Use /\ UNCHANGED otherVars

Spec == Init /\ [][Next]_vars

----------------------------------------------------------------------------
(* Scene and Texture *)

\* allocateBuffers without its guard: objects are generated on every call
NeedsBuffers_Always == TRUE

\* allocateBuffers generates objects only while s.vao is nil / undefined
NeedsBuffers == vao = 0

\* the generate calls of allocateBuffers: a vertex array and two buffers in the
\* native backend, a vertex array and one buffer in the WebGL one
AllocCalls ==
    IF ~NeedsBuffers THEN <<>>
    ELSE IF backend = "native"
         THEN <<Call("GenVertexArrays", glObjectCount + 1),
                Call("GenBuffers", glObjectCount + 2),
                Call("GenBuffers", glObjectCount + 3)>>
         ELSE <<Call("createVertexArray", glObjectCount + 1),
                Call("createBuffer", glObjectCount + 2)>>

\* Scene.allocateBuffers
allocateBuffers ==
    IF NeedsBuffers
    THEN /\ vao' = glObjectCount + 1
         /\ vbo' = glObjectCount + 2
         /\ ebo' = IF backend = "native" THEN glObjectCount + 3 ELSE 0
         /\ glObjectCount' = glObjectCount + Len(AllocCalls)
         /\ glGenCalls' = glGenCalls + 1
    ELSE UNCHANGED <<vao, vbo, ebo, glObjectCount, glGenCalls>>

\* NewScene: the native one allocates the buffers, the WebGL one returns &Scene{}
NewScene ==
    /\ ~panicked
    /\ ~sceneExists
    /\ sceneExists' = TRUE
    /\ IF backend = "native"
       THEN /\ allocateBuffers
            /\ lastOp' = Op("NewScene", 0, ErrNil, AllocCalls, program)
       ELSE /\ UNCHANGED <<vao, vbo, ebo, glObjectCount, glGenCalls>>
            /\ lastOp' = Op("NewScene", 0, ErrNil, <<>>, program)
    /\ UNCHANGED <<backend, panicked, shaderVars, vboSize, eboSize, tex, wireFrames,
                   textures, glVboLen, glEboLen, glBoundTexture, lastVerticesLen,
                   lastIndicesLen, addVerticesCalls, addTrianglesCalls, lastTexArg>>

\* the vertex count AddVertices tracks: s.vboSize += int32(len(vertices)) / 5
AddVerticesSize(size, n) == size + (n \div VertexStride)

\* the vertex count AddTriangles tracks: s.vboSize += int32(len(vertices))
AddTrianglesVboSize(size, n) == size + n

\* the index count AddTriangles tracks: s.eboSize += int32(len(indices))
AddTrianglesEboSize(size, n) == size + n

\* Scene.AddVertices(vertices) with len(vertices) = n
AddVertices(n) ==
    /\ ~panicked
    /\ sceneExists
    /\ addVerticesCalls + addTrianglesCalls < MaxAdds
    /\ allocateBuffers
    /\ vboSize' = AddVerticesSize(vboSize, n)
    /\ glVboLen' = n
    /\ lastVerticesLen' = n
    /\ addVerticesCalls' = addVerticesCalls + 1
    /\ lastOp' = Op("AddVertices", n, ErrNil,
                    AllocCalls \o <<Call("BindVertexArray", vao'),
                                    Call("BindBuffer", vbo'),
                                    Call("BufferData", n),
                                    Call("VertexAttribPointer", 0),
                                    Call("EnableVertexAttribArray", 0),
                                    Call("VertexAttribPointer", 1),
                                    Call("EnableVertexAttribArray", 1),
                                    Call("BindVertexArray", 0)>>, program)
    /\ UNCHANGED <<backend, panicked, shaderVars, sceneExists, eboSize, tex,
                   wireFrames, textures, glEboLen, glBoundTexture, lastIndicesLen,
                   addTrianglesCalls, lastTexArg>>

\* Scene.AddTriangles(vertices, indices) with len(vertices) = n, len(indices) = k;
\* the WebGL method has an empty body
AddTriangles(n, k) ==
    /\ ~panicked
    /\ sceneExists
    /\ addVerticesCalls + addTrianglesCalls < MaxAdds
    /\ lastVerticesLen' = n
    /\ lastIndicesLen' = k
    /\ addTrianglesCalls' = addTrianglesCalls + 1
    /\ IF backend = "native"
       THEN /\ allocateBuffers
            /\ vboSize' = AddTrianglesVboSize(vboSize, n)
            /\ eboSize' = AddTrianglesEboSize(eboSize, k)
            /\ glVboLen' = n
            /\ glEboLen' = k
            /\ lastOp' = Op("AddTriangles", n, ErrNil,
                            AllocCalls \o <<Call("BindVertexArray", vao'),
                                            Call("BindBuffer", vbo'),
                                            Call("BufferData", n),
                                            Call("BindBuffer", ebo'),
                                            Call("BufferData", k),
                                            Call("VertexAttribPointer", 0),
                                            Call("EnableVertexAttribArray", 0),
                                            Call("VertexAttribPointer", 1),
                                            Call("EnableVertexAttribArray", 1),
                                            Call("VertexAttribPointer", 2),
                                            Call("EnableVertexAttribArray", 2),
                                            Call("BindVertexArray", 0)>>, program)
       ELSE /\ lastOp' = Op("AddTriangles", n, ErrNil, <<>>, program)
            /\ UNCHANGED <<vao, vbo, ebo, glObjectCount, glGenCalls, vboSize, eboSize,
                           glVboLen, glEboLen>>
    /\ UNCHANGED <<backend, panicked, shaderVars, sceneExists, tex, wireFrames,
                   textures, glBoundTexture, addVerticesCalls, lastTexArg>>

\* Scene.AddTexture(tex): t is a texture NewTextureFromBytes returned, or 0 for nil
AddTexture(t) ==
    /\ ~panicked
    /\ sceneExists
    /\ tex' = t
    /\ lastTexArg' = t
    /\ lastOp' = Op("AddTexture", t, ErrNil, <<>>, program)
    /\ UNCHANGED <<backend, panicked, shaderVars, sceneExists, vao, vbo, ebo, vboSize,
                   eboSize, wireFrames, textures, glObjectCount, glGenCalls, glVboLen,
                   glEboLen, glBoundTexture, lastVerticesLen, lastIndicesLen,
                   addVerticesCalls, addTrianglesCalls>>

\* NewTextureFromBytes(b): decodeImage fails or yields the pixels, which are
\* uploaded to a new texture object left bound to unit 0
NewTextureFromBytes(decodes) ==
    /\ ~panicked
    /\ Cardinality(textures) < MaxTextures
    /\ IF ~decodes
       THEN /\ lastOp' = Op("NewTextureFromBytes", 0, ErrDecode, <<>>, program)
            /\ UNCHANGED <<textures, glBoundTexture>>
       ELSE LET t == Cardinality(textures) + 1
            IN /\ textures' = textures \cup {t}
               /\ glBoundTexture' = t
               /\ lastOp' = Op("NewTextureFromBytes", t, ErrNil,
                               <<Call("GenTextures", t), Call("ActiveTexture", 0),
                                 Call("BindTexture", t), Call("TexParameteri", 0),
                                 Call("TexParameteri", 1), Call("TexParameteri", 2),
                                 Call("TexParameteri", 3), Call("TexImage2D", t),
                                 Call("GenerateMipmap", t)>>, program)
    /\ UNCHANGED <<backend, panicked, shaderVars, sceneExists, vao, vbo, ebo, vboSize,
                   eboSize, tex, wireFrames, glObjectCount, glGenCalls, glVboLen,
                   glEboLen, lastVerticesLen, lastIndicesLen, addVerticesCalls,
                   addTrianglesCalls, lastTexArg>>

\* the texture part of Draw without the nil check
DrawTextureCalls_NoNilCheck(t) == <<Call("ActiveTexture", 0), Call("BindTexture", t)>>

\* the texture part of Draw: if s.tex != nil, bind it to unit 0
DrawTextureCalls(t) ==
    IF t # 0 THEN <<Call("ActiveTexture", 0), Call("BindTexture", t)>> ELSE <<>>

\* the polygon mode part of Draw (native backend only)
DrawPolygonCalls(wire) ==
    IF wire THEN <<Call("PolygonMode", GL_LINE)>> ELSE <<Call("PolygonMode", GL_FILL)>>

\* the draw call of the native Draw: indexed when s.eboSize > 0
DrawCallNative(vsize, esize) ==
    IF esize > 0 THEN Call("DrawElements", esize) ELSE Call("DrawArrays", vsize)

\* the draw call of the WebGL Draw
DrawCallWebGL(vsize, esize) == Call("drawArrays", vsize)

\* Scene.Draw(shader): withShader is FALSE for a nil shader.  The native Draw
\* uploads the view matrix through shader.UniformTransformation and ignores its
\* error; the WebGL Draw calls shader.Use(), which panics on an unlinked shader.
Draw(withShader) ==
    /\ ~panicked
    /\ sceneExists
    /\ allocateBuffers
    /\ IF backend = "native"
       THEN /\ lastOp' = Op("Draw", IF withShader THEN 1 ELSE 0, ErrNil,
                  AllocCalls
                  \o (IF withShader THEN UniformMatrix(program, "view").calls ELSE <<>>)
                  \o DrawTextureCalls(tex)
                  \o DrawPolygonCalls(wireFrames)
                  \o <<Call("BindVertexArray", vao'),
                       DrawCallNative(vboSize, eboSize),
                       Call("BindVertexArray", 0)>>, program)
            /\ glBoundTexture' = IF tex # 0 THEN tex ELSE glBoundTexture
            /\ UNCHANGED <<panicked, glCurrentProgram>>
       ELSE IF withShader /\ NotLinked(program)
            THEN /\ panicked' = TRUE
                 /\ lastOp' = Op("Draw", 1, PanicNotLinked, AllocCalls, program)
                 /\ UNCHANGED <<glBoundTexture, glCurrentProgram>>
            ELSE /\ lastOp' = Op("Draw", IF withShader THEN 1 ELSE 0, ErrNil,
                       AllocCalls
                       \o (IF withShader THEN <<Call("UseProgram", program)>> ELSE <<>>)
                       \o DrawTextureCalls(tex)
                       \o <<Call("BindVertexArray", vao'),
                            DrawCallWebGL(vboSize, eboSize),
                            Call("BindVertexArray", 0)>>, program)
                 /\ glBoundTexture' = IF tex # 0 THEN tex ELSE glBoundTexture
                 /\ glCurrentProgram' = IF withShader THEN program ELSE glCurrentProgram
                 /\ UNCHANGED panicked
    /\ UNCHANGED <<backend, shaderFiles, program, everLinked, linkedHandle,
                   glProgramCount, sceneExists, vboSize, eboSize, tex, wireFrames,
                   textures, glVboLen, glEboLen, lastVerticesLen, lastIndicesLen,
                   addVerticesCalls, addTrianglesCalls, lastTexArg>>

----------------------------------------------------------------------------
(* Specification of the Scene: the Shader handed to Draw is the demo's, built *)
(* from its two embedded sources and linked (or not) by Link                 *)

DemoStages ==
    <<shaderSource("valid.glsl", "VERTEX_SHADER"),
      shaderSource("valid.glsl", "FRAGMENT_SHADER")>>

SceneSpecInit ==
    /\ backend \in Backends
    /\ panicked = FALSE
    /\ lastOp = Op("new", 0, ErrNil, <<>>, 0)
    /\ shaderFiles = DemoStages
    /\ program = 0
    /\ everLinked = FALSE
    /\ linkedHandle = 0
    /\ glProgramCount = 0
    /\ glCurrentProgram = 0
    /\ SceneInit
    /\ WindowInit
    /\ DemoIdle
    /\ ChainIdle
    /\ PureIdle

SceneNext ==
    \/ NewScene /\ UNCHANGED otherVars
    \/ \E n \in VertexLens : AddVertices(n) /\ UNCHANGED otherVars
    \/ \E a \in TriangleLens : AddTriangles(a[1], a[2]) /\ UNCHANGED otherVars
    \/ \E t \in textures \cup {0} : AddTexture(t) /\ UNCHANGED otherVars
    \/ \E decodes \in BOOLEAN : NewTextureFromBytes(decodes) /\ UNCHANGED otherVars
    \/ \E withShader \in BOOLEAN : Draw(withShader) /\ UNCHANGED otherVars
    \/ \E status \in {0, 1} : Link(status) /\ UNCHANGED otherVars

SceneSpec == SceneSpecInit /\ [][SceneNext]_vars

----------------------------------------------------------------------------
(* Window *)

\* the Scene fields and driver objects other than those NewScene touches
sceneRest == <<vboSize, eboSize, tex, wireFrames, textures, glVboLen, glEboLen,
               glBoundTexture, lastVerticesLen, lastIndicesLen, addVerticesCalls,
               addTrianglesCalls, lastTexArg>>
\* the input state of the Window
inputVars == <<pressedKeys, firstMouse, lastX, lastY, yaw, pitch, sensitivity,
               camFront, camMoves, escPressed, f10Odd, lastKey>>

\* what the windowing driver answered to NewWindow: 0 when glfw.Init failed,
\* 1 when glfw.CreateWindow failed, 2 when both succeeded
DriverAnswer(initOk, createOk) == IF ~initOk THEN 0 ELSE IF ~createOk THEN 1 ELSE 2

\* NewWindow checking glfw.Init only
NewWindowErr_InitOnly(initOk, createOk) == IF ~initOk THEN ErrGlfwInit ELSE ErrNil

\* the error NewWindow returns: each of the two failures returns at once
NewWindowErr(initOk, createOk) ==
    IF ~initOk THEN ErrGlfwInit
    ELSE IF ~createOk THEN ErrCreateWindow
    ELSE ErrNil

\* the driver calls of the native NewWindow returning err
NewWindowCalls(initOk, createOk, err) ==
    <<Call("glfw.Init", IF initOk THEN 1 ELSE 0)>>
    \o (IF err = ErrGlfwInit THEN <<>>
        ELSE [i \in 1..5 |-> Call("glfw.WindowHint", i)]
             \o <<Call("glfw.CreateWindow", IF createOk THEN 1 ELSE 0)>>)
    \o (IF err # ErrNil THEN <<>>
        ELSE <<Call("MakeContextCurrent", 0), Call("SetInputMode", 0),
               Call("SetFramebufferSizeCallback", 0), Call("SetKeyCallback", 0),
               Call("SetCursorPosCallback", 0), Call("gl.Init", 0)>>
             \o AllocCalls)

\* NewWindow in the WebGL backend: a canvas, its webgl2 context, an empty Scene
\* and the first animation frame request; it never returns an error
NewWindowWebGL(width, height) ==
    /\ window' = "created"
    /\ glInitialized' = TRUE
    /\ sceneExists' = TRUE
    /\ Width' = width /\ Height' = height
    /\ frameRequested' = TRUE
    /\ lastOp' = Op("NewWindow", 2, ErrNil,
                    <<Call("createElement", 0), Call("appendChild", 0),
                      Call("getContext", 0), Call("requestAnimationFrame", 0)>>, 0)
    /\ UNCHANGED <<glfwInitialized, callbacks, pressedKeys, sensitivity, vao, vbo,
                   ebo, glObjectCount, glGenCalls>>

\* NewWindow(width, height, title): initOk and createOk are what glfw.Init and
\* glfw.CreateWindow answer
NewWindow(width, height, initOk, createOk) ==
    /\ ~panicked
    /\ window = "unset"
    /\ ~sceneExists
    /\ IF backend = "webgl"
       THEN NewWindowWebGL(width, height)
       ELSE LET err == NewWindowErr(initOk, createOk)
            IN /\ glfwInitialized' = initOk
               /\ lastOp' = Op("NewWindow", DriverAnswer(initOk, createOk), err,
                               NewWindowCalls(initOk, createOk, err), 0)
               /\ UNCHANGED frameRequested
               /\ IF err # ErrNil
                  THEN /\ window' = "nil"
                       /\ UNCHANGED <<glInitialized, callbacks, sceneExists, vao, vbo,
                                      ebo, glObjectCount, glGenCalls, Width, Height,
                                      pressedKeys, sensitivity>>
                  ELSE /\ window' = "created"
                       /\ callbacks' = TRUE
                       /\ glInitialized' = TRUE
                       /\ sceneExists' = TRUE
                       /\ allocateBuffers
                       /\ Width' = width /\ Height' = height
                       /\ pressedKeys' = {}
                       /\ sensitivity' = SensitivityDefault
    /\ UNCHANGED <<backend, panicked, shaderVars, sceneRest, closeFlag, polling,
                   firstMouse, lastX, lastY, yaw, pitch, camFront, camMoves,
                   clearColor, animationFrameLock, terminateCalls, closeCalls,
                   escPressed, f10Odd, lastKey>>

\* a ShouldClose() that answers true in both backends
ShouldClose_True == TRUE

\* Window.ShouldClose(): the GLFW flag in the native backend, false in the WebGL one
ShouldClose == IF backend = "native" THEN closeFlag ELSE FALSE

\* what Window.Close() does: glfw.Terminate() (native), nothing (WebGL).  The
\* receiver is not dereferenced, so a nil *Window is accepted.
CloseEffect ==
    /\ closeCalls' = closeCalls + 1
    /\ terminateCalls' = IF backend = "native" THEN terminateCalls + 1
                         ELSE terminateCalls
    /\ window' = IF backend = "native" /\ window = "created" THEN "closed" ELSE window
    /\ lastOp' = Op("Close", 0, ErrNil,
                    IF backend = "native" THEN <<Call("glfw.Terminate", 0)>> ELSE <<>>,
                    0)

\* Window.Close()
Close ==
    /\ ~panicked
    /\ window \in {"nil", "created"}
    /\ ~polling
    /\ closeCalls < MaxCloses
    /\ CloseEffect
    /\ UNCHANGED <<backend, panicked, shaderVars, sceneVars, glfwInitialized,
                   glInitialized, callbacks, closeFlag, polling, Width, Height,
                   inputVars, clearColor, animationFrameLock, frameRequested>>

\* render.Version(): the native one calls gl.GetString, which without gl.Init
\* goes through an unloaded function pointer: the process dies (crash) or the
\* call returns; the WebGL one answers "WebGL Not Initialized." without a call
Version(crash) ==
    /\ ~panicked
    /\ ~polling
    /\ IF backend = "native"
       THEN IF ~glInitialized /\ crash
            THEN /\ panicked' = TRUE
                 /\ lastOp' = Op("Version", 0, "fatal signal",
                                 <<Call("GetString", 0)>>, 0)
            ELSE /\ lastOp' = Op("Version", 0, ErrNil,
                                 [i \in 1..4 |-> Call("GetString", i)], 0)
                 /\ UNCHANGED panicked
       ELSE /\ lastOp' = Op("Version", 0, ErrNil,
                    IF glInitialized THEN [i \in 1..4 |-> Call("getParameter", i)]
                    ELSE <<>>, 0)
            /\ UNCHANGED panicked
    /\ UNCHANGED <<backend, shaderVars, sceneVars, windowVars>>

\* Scene.Clear(): enables the depth test, defaults the clear color, clears
Clear ==
    /\ ~panicked
    /\ sceneExists
    /\ ~polling
    /\ clearColor' = "BgColor"
    /\ lastOp' = Op("Clear", 0, ErrNil,
                    IF backend = "native"
                    THEN <<Call("Enable", 0), Call("ClearColor", 0), Call("Clear", 0)>>
                    ELSE <<Call("enable", 0), Call("clearColor", 0), Call("clear", 0)>>,
                    0)
    /\ UNCHANGED <<backend, panicked, shaderVars, sceneVars, window, glfwInitialized,
                   glInitialized, callbacks, closeFlag, polling, Width, Height,
                   inputVars, animationFrameLock, frameRequested, terminateCalls,
                   closeCalls>>

\* Window.onWindowGeometryChanged: the framebuffer size callback
onWindowGeometryChanged(width, height) ==
    /\ ~panicked
    /\ backend = "native" /\ window = "created" /\ callbacks /\ polling
    /\ Width' = width /\ Height' = height
    /\ lastOp' = Op("onWindowGeometryChanged", 0, ErrNil,
                    <<Call("Viewport", width)>>, 0)
    /\ UNCHANGED <<backend, panicked, shaderVars, sceneVars, window, glfwInitialized,
                   glInitialized, callbacks, closeFlag, polling, inputVars, clearColor,
                   animationFrameLock, frameRequested, terminateCalls, closeCalls>>

\* the close request on the wrong action: a Release of Escape closes
EscapeCloses_OnRelease(key, action) == key = KeyEscape /\ action = Release

\* onKeyPressed asks the window to close on a Press of Escape
EscapeCloses(key, action) == key = KeyEscape /\ action = Press

\* the wireframe toggle without its test of the action
FlipsWireFrames_AnyAction(key, action) == key = KeyF10

\* onKeyPressed flips Scene.wireFrames on a Press of F10
FlipsWireFrames(key, action) == key = KeyF10 /\ action = Press

\* the sensitivity after the F1 / F2 part of onKeyPressed
SensitivityAfterKey(s, key, action) ==
    IF key = KeyF1 /\ action = Press THEN s + SensitivityStep
    ELSE IF key = KeyF2 /\ action = Press THEN s - SensitivityStep
    ELSE s

\* onKeyPressed without its range check
SensitivityFix_None(s) == s

\* the range check of onKeyPressed: above 5 or below 0 goes back to 0.05
SensitivityFix(s) ==
    IF s > SensitivityMax \/ s < 0 THEN SensitivityDefault ELSE s

\* the switch of onKeyPressed with Repeat handled like Press
PressedAfter_RepeatPresses(keys, key, action) ==
    IF action = Release THEN keys \ {key} ELSE keys \cup {key}

\* the switch of onKeyPressed on the action
PressedAfter(keys, key, action) ==
    IF action = Press THEN keys \cup {key}
    ELSE IF action = Release THEN keys \ {key}
    ELSE keys

\* one camera move: sign * cameraSpeed along front, or along
\* normalize(front x up) when axis is "right"
Move(sign, axis, front) == <<sign, axis, front>>

\* the moves the movement handling of onKeyPressed adds to cam.pos, in its order
CameraMoves(keys, front) ==
    (IF KeyW \in keys THEN <<Move(1, "front", front)>> ELSE <<>>)
    \o (IF KeyS \in keys THEN <<Move(-1, "front", front)>> ELSE <<>>)
    \o (IF KeyA \in keys THEN <<Move(-1, "right", front)>> ELSE <<>>)
    \o (IF KeyD \in keys THEN <<Move(1, "right", front)>> ELSE <<>>)

\* Window.onKeyPressed: the key callback
onKeyPressed(key, action) ==
    /\ ~panicked
    /\ backend = "native" /\ window = "created" /\ callbacks /\ polling
    /\ Len(camMoves) + Len(CameraMoves(PressedAfter(pressedKeys, key, action), camFront))
           <= MaxMoves
    /\ closeFlag' = (closeFlag \/ EscapeCloses(key, action))
    /\ wireFrames' = IF FlipsWireFrames(key, action) THEN ~wireFrames ELSE wireFrames
    /\ sensitivity' = SensitivityFix(SensitivityAfterKey(sensitivity, key, action))
    /\ pressedKeys' = PressedAfter(pressedKeys, key, action)
    /\ camMoves' = camMoves \o CameraMoves(pressedKeys', camFront)
    /\ escPressed' = (escPressed \/ (key = KeyEscape /\ action = Press))
    /\ f10Odd' = IF key = KeyF10 /\ action = Press THEN ~f10Odd ELSE f10Odd
    /\ lastKey' = <<key, action>>
    /\ lastOp' = Op("onKeyPressed", 0, ErrNil,
                    IF EscapeCloses(key, action) THEN <<Call("SetShouldClose", 1)>>
                    ELSE <<>>, sensitivity)
    /\ UNCHANGED <<backend, panicked, shaderVars, sceneExists, vao, vbo, ebo, vboSize,
                   eboSize, tex, textures, glObjectCount, glGenCalls, glVboLen,
                   glEboLen, glBoundTexture, lastVerticesLen, lastIndicesLen,
                   addVerticesCalls, addTrianglesCalls, lastTexArg, window,
                   glfwInitialized, glInitialized, callbacks, polling, Width, Height,
                   firstMouse, lastX, lastY, yaw, pitch, camFront, clearColor,
                   animationFrameLock, frameRequested, terminateCalls, closeCalls>>

\* the pitch limit of onCursorPosChange without its lower half
ClampPitch_UpperOnly(p) == IF p > PitchMax THEN PitchMax ELSE p

\* the pitch limit of onCursorPosChange: above 89 is 89, below -89 is -89
ClampPitch(p) ==
    IF p > PitchMax THEN PitchMax
    ELSE IF p < -PitchMax THEN -PitchMax
    ELSE p

\* the unit vector (cos y cos p, sin p, sin y cos p), named by its angles
Direction(y, p) == <<y % FullTurn, p>>

\* Window.onCursorPosChange: the cursor position callback
onCursorPosChange(xpos, ypos) ==
    /\ ~panicked
    /\ backend = "native" /\ window = "created" /\ callbacks /\ polling
    /\ LET fromX == IF firstMouse THEN xpos ELSE lastX
           fromY == IF firstMouse THEN ypos ELSE lastY
           xoffset == (xpos - fromX) * sensitivity
           yoffset == (fromY - ypos) * sensitivity
       IN /\ firstMouse' = FALSE
          /\ lastX' = xpos /\ lastY' = ypos
          /\ yaw' = yaw + xoffset
          /\ pitch' = ClampPitch(pitch + yoffset)
          /\ camFront' = Direction(yaw', pitch')
    /\ lastOp' = Op("onCursorPosChange", 0, ErrNil, <<>>, pitch)
    /\ UNCHANGED <<backend, panicked, shaderVars, sceneVars, window, glfwInitialized,
                   glInitialized, callbacks, closeFlag, polling, Width, Height,
                   pressedKeys, sensitivity, camMoves, clearColor, animationFrameLock,
                   frameRequested, terminateCalls, closeCalls, escPressed, f10Odd,
                   lastKey>>

\* the user asks the window to close: GLFW sets the flag while it polls
CloseRequest ==
    /\ ~panicked
    /\ backend = "native" /\ window = "created" /\ polling
    /\ closeFlag' = TRUE
    /\ lastOp' = Op("CloseRequest", 0, ErrNil, <<>>, 0)
    /\ UNCHANGED <<backend, panicked, shaderVars, sceneVars, window, glfwInitialized,
                   glInitialized, callbacks, polling, Width, Height, inputVars,
                   clearColor, animationFrameLock, frameRequested, terminateCalls,
                   closeCalls>>

\* Window.PollEvents(): glfw.PollEvents() runs the callbacks of the pending
\* events before it returns; the WebGL one is empty
PollEvents ==
    /\ ~panicked
    /\ window = "created" /\ ~polling
    /\ polling' = (backend = "native")
    /\ lastOp' = Op("PollEvents", 0, ErrNil,
                    IF backend = "native" THEN <<Call("glfw.PollEvents", 0)>> ELSE <<>>,
                    0)
    /\ UNCHANGED <<backend, panicked, shaderVars, sceneVars, window, glfwInitialized,
                   glInitialized, callbacks, closeFlag, Width, Height, inputVars,
                   clearColor, animationFrameLock, frameRequested, terminateCalls,
                   closeCalls>>

\* glfw.PollEvents() returns: no event is pending any more
PollEventsReturn ==
    /\ ~panicked
    /\ polling
    /\ polling' = FALSE
    /\ UNCHANGED <<backend, panicked, lastOp, shaderVars, sceneVars, window,
                   glfwInitialized, glInitialized, callbacks, closeFlag, Width, Height,
                   inputVars, clearColor, animationFrameLock, frameRequested,
                   terminateCalls, closeCalls>>

\* Window.SwapBuffers(): the WebGL one waits for the animation frame token and
\* requests the next frame
SwapBuffers ==
    /\ ~panicked
    /\ window = "created" /\ ~polling
    /\ IF backend = "native"
       THEN /\ lastOp' = Op("SwapBuffers", 0, ErrNil, <<Call("SwapBuffers", 0)>>, 0)
            /\ UNCHANGED <<animationFrameLock, frameRequested>>
       ELSE /\ animationFrameLock = 1
            /\ animationFrameLock' = 0
            /\ frameRequested' = TRUE
            /\ lastOp' = Op("SwapBuffers", 0, ErrNil,
                            <<Call("requestAnimationFrame", 0)>>, 0)
    /\ UNCHANGED <<backend, panicked, shaderVars, sceneVars, window, glfwInitialized,
                   glInitialized, callbacks, closeFlag, polling, Width, Height,
                   inputVars, clearColor, terminateCalls, closeCalls>>

\* the browser runs the requestAnimationFrame callback: a token enters the channel
AnimationFrame ==
    /\ ~panicked
    /\ backend = "webgl" /\ frameRequested /\ animationFrameLock = 0
    /\ animationFrameLock' = 1
    /\ frameRequested' = FALSE
    /\ UNCHANGED <<backend, panicked, lastOp, shaderVars, sceneVars, window,
                   glfwInitialized, glInitialized, callbacks, closeFlag, polling, Width,
                   Height, inputVars, clearColor, terminateCalls, closeCalls>>

----------------------------------------------------------------------------
(* Specification of the Window: its construction, the frame methods and the *)
(* events GLFW delivers while the program polls                             *)

\* the variables the Window methods leave alone
appVars == <<demoVars, chainVars, pureVars>>

\* the keys, cursor positions and framebuffer sizes of the events tried
WindowKeys == {KeyEscape, KeyF10, KeySpace}
CursorXs == {0, 10}
CursorYs == {0, 2000}
ResizeTo == <<800, 600>>

WindowNext ==
    \/ \E initOk, createOk \in BOOLEAN :
          NewWindow(DemoWidth, DemoHeight, initOk, createOk) /\ UNCHANGED appVars
    \/ PollEvents /\ UNCHANGED appVars
    \/ PollEventsReturn /\ UNCHANGED appVars
    \/ \E key \in WindowKeys, action \in KeyActions :
          onKeyPressed(key, action) /\ UNCHANGED appVars
    \/ \E xpos \in CursorXs, ypos \in CursorYs :
          onCursorPosChange(xpos, ypos) /\ UNCHANGED appVars
    \/ onWindowGeometryChanged(ResizeTo[1], ResizeTo[2]) /\ UNCHANGED appVars
    \/ CloseRequest /\ UNCHANGED appVars
    \/ Clear /\ UNCHANGED appVars
    \/ \E withShader \in BOOLEAN : ~polling /\ Draw(withShader) /\ UNCHANGED otherVars
    \/ SwapBuffers /\ UNCHANGED appVars
    \/ AnimationFrame /\ UNCHANGED appVars
    \/ Close /\ UNCHANGED appVars

WindowSpec == SceneSpecInit /\ [][WindowNext]_vars

----------------------------------------------------------------------------
(* Specification of the input handling: the sensitivity keys and the cursor *)

InputKeys == {KeyF1, KeyF2}
InputYs == {0, 1000}

InputNext ==
    \/ \E initOk, createOk \in BOOLEAN :
          NewWindow(DemoWidth, DemoHeight, initOk, createOk) /\ UNCHANGED appVars
    \/ PollEvents /\ UNCHANGED appVars
    \/ PollEventsReturn /\ UNCHANGED appVars
    \/ \E key \in InputKeys, action \in KeyActions :
          onKeyPressed(key, action) /\ UNCHANGED appVars
    \/ \E ypos \in InputYs : onCursorPosChange(0, ypos) /\ UNCHANGED appVars

InputSpec == SceneSpecInit /\ [][InputNext]_vars


----------------------------------------------------------------------------
(* Claims about the Shader *)

UniformOps == {"UniformInts", "UniformFloats", "UniformTransformation"}
IntUploads == <<"Uniform1i", "Uniform2i", "Uniform3i", "Uniform4i">>
FloatUploads == <<"Uniform1f", "Uniform2f", "Uniform3f", "Uniform4f">>
UploadFns == {IntUploads[i] : i \in 1..4} \cup {FloatUploads[i] : i \in 1..4}
             \cup {"UniformMatrix4fv"}
\* the uniform uploads among the driver calls of the last method call
Uploads == CallsNamed(lastOp.calls, UploadFns)

\* C1: on a Shader whose Link() has never returned nil, every UniformInts,
\* UniformFloats and UniformTransformation call, with any name and any number of
\* values, returns ErrShaderNotLinked and issues no driver call at all.
C1_UniformBeforeLink ==
    (lastOp.op \in UniformOps /\ ~everLinked)
        => (lastOp.err = ErrShaderNotLinked /\ lastOp.calls = <<>>)

\* a uniform call with 5 values on a Shader whose only Link() attempts failed
C1_Witness ==
    /\ lastOp.op = "UniformInts" /\ lastOp.arg = 5
    /\ ~everLinked /\ Len(shaderFiles) > 0
    /\ lastOp.err = ErrShaderNotLinked

\* C2: Use() on a Shader whose Link() has never returned nil panics and issues no
\* UseProgram, and no program is ever current for such a Shader; Use() after a
\* Link() that returned nil does not panic and makes current exactly the program
\* handle that Link() produced.
C2_Use ==
    /\ ~everLinked => glCurrentProgram = 0
    /\ lastOp.op = "Use" =>
          IF ~everLinked
          THEN panicked /\ lastOp.calls = <<>>
          ELSE /\ ~panicked
               /\ lastOp.calls = <<Call("UseProgram", linkedHandle)>>
               /\ glCurrentProgram = linkedHandle
               /\ linkedHandle # 0

\* Use() has bound the program of the second Link() that returned nil
C2_Witness ==
    lastOp.op = "Use" /\ ~panicked /\ linkedHandle = 2 /\ glCurrentProgram = 2

\* Use() has aborted on a Shader that has stages but was never linked
C2_WitnessPanic == lastOp.op = "Use" /\ panicked /\ ~everLinked /\ Len(shaderFiles) > 0

\* C3: on a linked Shader, UniformInts / UniformFloats with n values issues
\* exactly one upload, the n-component one of its type, and returns nil when
\* 1 <= n <= 4; for n = 0 and n > 4 it returns an error and issues no upload.
C3_UniformArity ==
    (lastOp.op \in {"UniformInts", "UniformFloats"} /\ everLinked) =>
        LET n == lastOp.arg
            table == IF lastOp.op = "UniformInts" THEN IntUploads ELSE FloatUploads
        IN IF n \in 1..4
           THEN /\ lastOp.err = ErrNil
                /\ Len(Uploads) = 1
                /\ Uploads[1][1] = table[n]
           ELSE /\ lastOp.err # ErrNil
                /\ Uploads = <<>>

\* a 5-value call rejected on a linked Shader
C3_Witness ==
    /\ lastOp.op = "UniformFloats" /\ lastOp.arg = 5 /\ everLinked
    /\ lastOp.err = ErrArgCount

\* a 3-value call dispatched on a linked Shader
C3_WitnessDispatch ==
    /\ lastOp.op = "UniformInts" /\ lastOp.arg = 3 /\ everLinked
    /\ Uploads = <<Call("Uniform3i", "view")>>

\* C4: Link() on a Shader with zero recorded stages returns an error and leaves
\* the Shader unlinked.
C4_LinkNoStages ==
    (lastOp.op = "Link" /\ lastOp.arg = 0)
        => (lastOp.err # ErrNil /\ NotLinked(program))

\* C5: whenever Link() returns an error, Shader.program is what it was before the
\* call, and a Shader that was never linked is still unlinked.
C5_LinkErrorKeepsProgram ==
    (lastOp.op = "Link" /\ lastOp.err # ErrNil)
        => (program = lastOp.pre /\ (~everLinked => NotLinked(program)))

\* a Link() that fails on a Shader an earlier Link() had linked
C5_Witness ==
    lastOp.op = "Link" /\ lastOp.err # ErrNil /\ everLinked /\ lastOp.pre # 0

\* a Link() that fails to compile on a never-linked Shader
C5_WitnessCompile ==
    lastOp.op = "Link" /\ lastOp.err = ErrCompile /\ ~everLinked

\* C6: in both backends, when every stage compiles and the driver reports a
\* false link status, Link() returns an error and Shader.program is unchanged.
C6_LinkStatusChecked ==
    (lastOp.op = "Link" /\ Len(CallsNamed(lastOp.calls, {"GetProgramiv"})) = 1
       /\ CallsNamed(lastOp.calls, {"GetProgramiv"})[1][2] = 0)
        => (lastOp.err # ErrNil /\ program = lastOp.pre)

----------------------------------------------------------------------------
(* Claims about the Scene *)

DrawFns == {"DrawArrays", "DrawElements", "drawArrays"}
\* the draw calls among the driver calls of the last method call
DrawCalls == CallsNamed(lastOp.calls, DrawFns)
\* the texture binding calls among the driver calls of the last method call
TextureCalls == CallsNamed(lastOp.calls, {"ActiveTexture", "BindTexture"})
\* the last method call is a Draw that ran to its end
DrewOk == lastOp.op = "Draw" /\ lastOp.err = ErrNil
\* the non-indexed draw call of the backend
ArraysFn == IF backend = "native" THEN "DrawArrays" ELSE "drawArrays"

\* C7: after one or more AddVertices calls and no AddTriangles call, each Draw
\* issues one non-indexed draw whose vertex count is len(v)/5 for the array v of
\* the most recent AddVertices call.
C7_DrawLastVertices ==
    (DrewOk /\ addVerticesCalls >= 1 /\ addTrianglesCalls = 0)
        => DrawCalls = <<Call(ArraysFn, lastVerticesLen \div 5)>>

\* C8: in the native backend, after one or more AddTriangles calls (and no
\* AddVertices call), the most recent with a non-empty index array, each Draw
\* issues one indexed draw whose index count is len(indices) of that most recent
\* call, however many AddTriangles calls there were.
C8_DrawLastIndices ==
    (DrewOk /\ backend = "native" /\ addTrianglesCalls >= 1 /\ addVerticesCalls = 0
       /\ lastIndicesLen > 0)
        => DrawCalls = <<Call("DrawElements", lastIndicesLen)>>

\* the Scene has been used in a way that reaches allocateBuffers
BuffersNeeded ==
    IF backend = "native" THEN sceneExists
    ELSE addVerticesCalls >= 1 \/ lastOp.op = "Draw"

C10_DrawTexture ==
    lastOp.op = "Draw" =>
        /\ (backend = "native" \/ lastOp.arg = 0 \/ everLinked) => lastOp.err = ErrNil
        /\ DrewOk =>
             /\ Len(DrawCalls) = 1
             /\ IF lastTexArg # 0
                THEN /\ TextureCalls = <<Call("ActiveTexture", 0),
                                         Call("BindTexture", lastTexArg)>>
                     /\ glBoundTexture = lastTexArg
                ELSE TextureCalls = <<>>

\* a Draw binds the attached texture 1 although texture 2 was created, and left
\* bound, after it
C10_Witness ==
    DrewOk /\ lastTexArg = 1 /\ textures = {1, 2} /\ glBoundTexture = 1

\* a Draw with nothing attached while a texture exists
C10_WitnessNil ==
    DrewOk /\ lastTexArg = 0 /\ textures # {} /\ TextureCalls = <<>>

\* the UseProgram and draw calls of the last method call, in order
UseAndDrawCalls == CallsNamed(lastOp.calls, {"UseProgram"} \cup DrawFns)

\* C11: in both backends a Draw(shader) with a linked shader issues UseProgram
\* for that shader's program before its draw call, so that program is the
\* current one when the draw call is issued, whatever was current before.
C11_DrawBindsShader ==
    (DrewOk /\ lastOp.arg = 1 /\ everLinked) =>
        /\ Len(UseAndDrawCalls) = 2
        /\ UseAndDrawCalls[1] = Call("UseProgram", program)
        /\ UseAndDrawCalls[2][1] \in DrawFns
        /\ glCurrentProgram = program

\* C12: in the native backend, once a Press of Escape has been delivered to the
\* key callback, ShouldClose() is true, and it is true in every later state: no
\* key, cursor, resize, draw, swap or poll operation clears the flag.
C12_EscapeCloses ==
    /\ [](backend = "native" /\ escPressed => ShouldClose)
    /\ [][closeFlag => closeFlag']_vars

\* a Press of Escape, then other events, a return from the poll and a Draw
C12_Witness ==
    /\ backend = "native" /\ escPressed /\ ShouldClose
    /\ lastKey = <<KeySpace, Release>>
    /\ lastOp.op = "Draw"

----------------------------------------------------------------------------
(* The demo program: main() of the demo, one action per statement.  pc names *)
(* the statement main() is at; "done" is a return from main(), "exited" an   *)
(* os.Exit(1), "died" the end of a panic or of a fatal signal.               *)

\* main() moves from statement `here` to statement `next`
Goto(here, next) ==
    /\ pc = here
    /\ pc' = next
    /\ UNCHANGED <<frameCount, gridX, gridZ, deferred, chainVars, pureVars>>

\* window, err := render.NewWindow(...); the error is logged; defer window.Close()
mainNewWindow ==
    /\ pc = "NewWindow"
    /\ \E initOk, createOk \in BOOLEAN :
          NewWindow(DemoWidth, DemoHeight, initOk, createOk)
    /\ pc' = "Version"
    /\ deferred' = TRUE
    /\ UNCHANGED <<frameCount, gridX, gridZ, chainVars, pureVars>>

\* log.Infof("Rendering Backend: %v", render.Version())
mainVersion ==
    /\ \E crash \in BOOLEAN : Version(crash)
    /\ Goto("Version", IF panicked' THEN "died" ELSE "VertexShader")

\* shader.VertexShader(vertexShaderSrc): the driver will accept the source or not
mainVertexShader ==
    /\ \E src \in Sources : VertexShader(src)
    /\ Goto("VertexShader", "FragmentShader")
    /\ UNCHANGED windowVars

\* .FragmentShader(fragmentShaderSrc)
mainFragmentShader ==
    /\ \E src \in Sources : FragmentShader(src)
    /\ Goto("FragmentShader", "Link")
    /\ UNCHANGED windowVars

\* a gl call of method op made without gl.Init(), through an unloaded function
\* pointer, when it kills the process
FatalSignal(op) ==
    /\ ~panicked
    /\ backend = "native" /\ ~glInitialized
    /\ panicked' = TRUE
    /\ lastOp' = Op(op, 0, "fatal signal", <<>>, 0)
    /\ UNCHANGED <<backend, shaderVars, sceneVars, windowVars>>

\* if err := shader.Link(); err != nil { ...; os.Exit(1) }
mainLink ==
    \/ /\ \E status \in {0, 1} : Link(status)
       /\ Goto("Link", IF lastOp'.err # ErrNil THEN "exited" ELSE "AddVertices")
       /\ UNCHANGED windowVars
    \/ /\ FatalSignal("Link")
       /\ Goto("Link", "died")

\* window.Scene() on the nil *Window a failed NewWindow returned: a panic
SceneOfNil ==
    /\ ~panicked
    /\ window = "nil"
    /\ panicked' = TRUE
    /\ lastOp' = Op("Scene", 0, PanicNilWindow, <<>>, 0)
    /\ UNCHANGED <<backend, shaderVars, sceneVars, windowVars>>

\* window.Scene().AddVertices(cube)
mainAddVertices ==
    /\ \/ SceneOfNil
       \/ window # "nil" /\ AddVertices(CubeLen) /\ UNCHANGED windowVars
    /\ Goto("AddVertices", IF panicked' THEN "panicking" ELSE "NewTexture")

\* tex, err := render.NewTextureFromBytes(texDirt); if err != nil { ...; os.Exit(1) }
mainNewTexture ==
    /\ \E decodes \in BOOLEAN : NewTextureFromBytes(decodes)
    /\ Goto("NewTexture", IF lastOp'.err # ErrNil THEN "exited" ELSE "AddTexture")
    /\ UNCHANGED windowVars

\* window.Scene().AddTexture(tex)
mainAddTexture ==
    /\ AddTexture(lastOp.arg)
    /\ Goto("AddTexture", "loop")
    /\ UNCHANGED windowVars

\* a frame loop that never looks at the window
LoopContinues_Always == TRUE

\* for !window.ShouldClose()
LoopContinues == ~ShouldClose

\* the loop condition: the body is entered or main() returns
mainLoop ==
    /\ ~panicked
    /\ LoopContinues => frameCount < MaxFrames
    /\ Goto("loop", IF LoopContinues THEN "Clear" ELSE "return")
    /\ UNCHANGED <<backend, panicked, lastOp, shaderVars, sceneVars, windowVars>>

\* window.Scene().Clear()
mainClear ==
    /\ Clear
    /\ Goto("Clear", "Use")

\* shader.Use()
mainUse ==
    /\ Use
    /\ Goto("Use", IF panicked' THEN "panicking" ELSE "UniformInts")
    /\ UNCHANGED windowVars

\* shader.UniformInts("frameCount", frameCount)
mainUniformInts ==
    /\ UniformInts("frameCount", 1)
    /\ Goto("UniformInts", "UniformFloats")
    /\ UNCHANGED windowVars

\* shader.UniformFloats("renderTime", f(t))
mainUniformFloats ==
    /\ UniformFloats("renderTime", 1)
    /\ Goto("UniformFloats", "UniformProjection")
    /\ UNCHANGED windowVars

\* shader.UniformTransformation("projection", projection); for x := -10; for z := -10
mainUniformProjection ==
    /\ pc = "UniformProjection"
    /\ UniformTransformation("projection")
    /\ pc' = "GridModel"
    /\ gridX' = -GridSide
    /\ gridZ' = -GridSide
    /\ UNCHANGED <<frameCount, deferred, chainVars, pureVars, windowVars>>

\* shader.UniformTransformation("model", model) of the floor loops
mainGridModel ==
    /\ UniformTransformation("model")
    /\ Goto("GridModel", "GridDraw")
    /\ UNCHANGED windowVars

\* window.Scene().Draw(shader) of the floor loops; z++, and x++ once z reaches 10
mainGridDraw ==
    /\ pc = "GridDraw"
    /\ Draw(TRUE)
    /\ IF panicked' THEN pc' = "panicking" /\ UNCHANGED <<gridX, gridZ>>
       ELSE IF gridZ + 1 < GridSide
       THEN pc' = "GridModel" /\ gridZ' = gridZ + 1 /\ UNCHANGED gridX
       ELSE IF gridX + 1 < GridSide
       THEN pc' = "GridModel" /\ gridX' = gridX + 1 /\ gridZ' = -GridSide
       ELSE pc' = "CubeModel" /\ UNCHANGED <<gridX, gridZ>>
    /\ UNCHANGED <<frameCount, deferred, chainVars, pureVars, windowVars>>

\* model := transform.Chain(...); shader.UniformTransformation("model", model)
mainCubeModel ==
    /\ UniformTransformation("model")
    /\ Goto("CubeModel", "CubeDraw")
    /\ UNCHANGED windowVars

\* window.Scene().Draw(shader) of the cube
mainCubeDraw ==
    /\ Draw(TRUE)
    /\ Goto("CubeDraw", IF panicked' THEN "panicking" ELSE "SwapBuffers")
    /\ UNCHANGED windowVars

\* window.SwapBuffers()
mainSwapBuffers ==
    /\ SwapBuffers
    /\ Goto("SwapBuffers", "PollEvents")

\* window.PollEvents(): GLFW starts delivering the pending events
mainPollEvents ==
    /\ PollEvents
    /\ Goto("PollEvents", IF polling' THEN "polling" ELSE "frameCount++")

\* the events GLFW delivers to the demo while it polls
DemoKeys == {KeyEscape, KeyF10}
DemoActions == {Press, Release}

\* one event is delivered to its callback inside window.PollEvents()
mainEvent ==
    /\ \/ \E key \in DemoKeys, action \in DemoActions : onKeyPressed(key, action)
       \/ CloseRequest
    /\ Goto("polling", "polling")

\* window.PollEvents() returns
mainPollEventsReturn ==
    /\ PollEventsReturn
    /\ Goto("polling", "frameCount++")

\* frameCount++ and the FPS log: the end of the loop body
mainFrameCount ==
    /\ ~panicked
    /\ pc = "frameCount++"
    /\ pc' = "loop"
    /\ frameCount' = frameCount + 1
    /\ UNCHANGED <<gridX, gridZ, deferred, chainVars, pureVars>>
    /\ UNCHANGED <<backend, panicked, lastOp, shaderVars, sceneVars, windowVars>>

\* main() returns (to "done") or unwinds a panic (to "died"): the deferred
\* window.Close() runs
mainDeferred ==
    /\ pc \in {"return", "panicking"}
    /\ deferred
    /\ CloseEffect
    /\ pc' = IF pc = "return" THEN "done" ELSE "died"
    /\ UNCHANGED <<frameCount, gridX, gridZ, deferred, chainVars, pureVars>>
    /\ UNCHANGED <<backend, panicked, shaderVars, sceneVars, glfwInitialized,
                   glInitialized, callbacks, closeFlag, polling, Width, Height,
                   inputVars, clearColor, animationFrameLock, frameRequested>>

\* the browser delivers the animation frame window.SwapBuffers() waits for
mainAnimationFrame ==
    /\ AnimationFrame
    /\ UNCHANGED appVars

DemoInit ==
    /\ backend \in Backends
    /\ panicked = FALSE
    /\ lastOp = Op("new", 0, ErrNil, <<>>, 0)
    /\ ShaderInit
    /\ SceneInit
    /\ WindowInit
    /\ pc = "NewWindow"
    /\ frameCount = 0
    /\ gridX = 0 /\ gridZ = 0
    /\ deferred = FALSE
    /\ ChainIdle
    /\ PureIdle

DemoNext ==
    \/ mainNewWindow
    \/ mainVersion
    \/ mainVertexShader
    \/ mainFragmentShader
    \/ mainLink
    \/ mainAddVertices
    \/ mainNewTexture
    \/ mainAddTexture
    \/ mainLoop
    \/ mainClear
    \/ mainUse
    \/ mainUniformInts
    \/ mainUniformFloats
    \/ mainUniformProjection
    \/ mainGridModel
    \/ mainGridDraw
    \/ mainCubeModel
    \/ mainCubeDraw
    \/ mainSwapBuffers
    \/ mainPollEvents
    \/ mainEvent
    \/ mainPollEventsReturn
    \/ mainFrameCount
    \/ mainDeferred
    \/ mainAnimationFrame

DemoSpec == DemoInit /\ [][DemoNext]_vars

\* the operations of a frame that render or present
FrameOps == {"Clear", "Draw", "SwapBuffers"}

\* C13: in the frame loop of the native demo no Clear, Draw or SwapBuffers is
\* issued once the close request is set: the flag only becomes true inside
\* PollEvents, the last call of an iteration, and the loop condition reads it
\* before the next iteration starts.
C13_NoFrameAfterClose ==
    /\ [](backend = "native" /\ closeFlag => lastOp.op \notin FrameOps)
    /\ [][(~closeFlag /\ closeFlag') => (pc = "polling" /\ polling)]_vars

\* the close request arrived during the poll of a frame and main() returned
C13_Witness ==
    /\ backend = "native" /\ closeFlag
    /\ frameCount = 1
    /\ pc = "done"

\* C14: in every terminated run of the demo in which the window was created,
\* Window.Close() has been invoked exactly once (after the last iteration of
\* the frame loop), also when the run ended on a Shader.Link() or texture error.
C14_CloseOnce ==
    (backend = "native" /\ pc \in {"done", "exited", "died"}
                        /\ window \in {"created", "closed"}) =>
        closeCalls = 1

\* C15: when NewWindow returns an error the demo issues no further rendering
\* operation: no Version, Shader.Link, Scene(), Draw or SwapBuffers follows.
C15_NewWindowErrorStops ==
    window = "nil" => lastOp.op \in {"NewWindow", "Close"}

\* the driver calls that install a callback, initialize OpenGL or build the Scene
SetupFns == {"SetFramebufferSizeCallback", "SetKeyCallback", "SetCursorPosCallback",
             "gl.Init", "GenVertexArrays", "GenBuffers"}

\* C16: when glfw.Init or glfw.CreateWindow fails, the native NewWindow returns
\* an error and a nil Window, and on that path no Scene is constructed, no
\* callback is installed and OpenGL is not initialized.
C16_NewWindowFailure ==
    /\ (backend = "native" /\ lastOp.op = "NewWindow" /\ lastOp.arg < 2) =>
           /\ lastOp.err # ErrNil
           /\ window = "nil"
           /\ CallsNamed(lastOp.calls, SetupFns) = <<>>
    /\ (backend = "native" /\ window = "nil") =>
           ~sceneExists /\ ~callbacks /\ ~glInitialized /\ vao = 0

\* glfw.Init succeeded and glfw.CreateWindow failed
C16_Witness ==
    /\ backend = "native"
    /\ lastOp.op = "NewWindow" /\ lastOp.arg = 1 /\ lastOp.err = ErrCreateWindow
    /\ window = "nil" /\ glfwInitialized

\* C17: whatever cursor events arrive, with any coordinates and sensitivity,
\* the pitch is within [-89, 89] degrees in every state after an event.
C17_PitchClamped == -PitchMax <= pitch /\ pitch <= PitchMax

\* a cursor event at a raised sensitivity took the pitch to the lower limit
C17_Witness ==
    /\ lastOp.op = "onCursorPosChange"
    /\ sensitivity > SensitivityDefault
    /\ lastOp.pre > -PitchMax /\ lastOp.pre < 0
    /\ pitch = -PitchMax

\* a cursor event took the pitch to the upper limit
C17_WitnessUpper ==
    /\ lastOp.op = "onCursorPosChange"
    /\ lastOp.pre < PitchMax
    /\ pitch = PitchMax

\* the sensitivity a key event arriving at sensitivity s must leave: a Press of
\* F1 adds 0.1, a Press of F2 subtracts 0.1, and a result above 5 or below 0
\* is replaced by 0.05 within the same event
ExpectedSensitivity(s, event) ==
    LET t == IF event = <<"F1", "Press">> THEN s + 2
             ELSE IF event = <<"F2", "Press">> THEN s - 2
             ELSE s
    IN IF t > 100 \/ t < 0 THEN 1 ELSE t

\* C18: after every key event 0 <= sensitivity <= 5; the event leaves the
\* sensitivity ExpectedSensitivity gives for the value it found.
C18_SensitivityRange ==
    /\ 0 <= sensitivity /\ sensitivity <= SensitivityMax
    /\ lastOp.op = "onKeyPressed" =>
           sensitivity = ExpectedSensitivity(lastOp.pre, lastKey)

\* a Press of F2 at the default sensitivity leaves 0.05
C18_Witness ==
    /\ lastOp.op = "onKeyPressed" /\ lastKey = <<KeyF2, Press>>
    /\ lastOp.pre = SensitivityDefault
    /\ sensitivity = SensitivityDefault

\* a Press of F1 at 4.95 goes back to 0.05
C18_WitnessUpper ==
    /\ lastOp.op = "onKeyPressed" /\ lastKey = <<KeyF1, Press>>
    /\ lastOp.pre = SensitivityMax - 1
    /\ sensitivity = SensitivityDefault

\* the polygon mode calls of the last method call
PolygonCalls == CallsNamed(lastOp.calls, {"PolygonMode"})

\* C19: in the native backend the wireframe flag is the parity of the F10
\* Presses delivered: every F10 Press flips it once and nothing else changes
\* it; each Draw selects the line polygon mode exactly when the flag is true.
C19_WireFrames ==
    backend = "native" =>
        /\ wireFrames = f10Odd
        /\ DrewOk => PolygonCalls =
               <<Call("PolygonMode", IF wireFrames THEN GL_LINE ELSE GL_FILL)>>

\* a Draw in line mode after a Press and a Release of F10
C19_Witness ==
    /\ backend = "native" /\ DrewOk
    /\ lastKey = <<KeyF10, Release>>
    /\ wireFrames
    /\ PolygonCalls = <<Call("PolygonMode", GL_LINE)>>

\* a Draw in fill mode after a second Press of F10
C19_WitnessFill ==
    /\ backend = "native" /\ DrewOk
    /\ lastKey = <<KeyF10, Press>>
    /\ ~wireFrames
    /\ PolygonCalls = <<Call("PolygonMode", GL_FILL)>>

----------------------------------------------------------------------------
(* transform.Chain over 4x4 integer matrices: m[i][j] is row i, column j *)

\* transform.Translate(x, y, z)
Translate(x, y, z) ==
    <<<<1, 0, 0, x>>, <<0, 1, 0, y>>, <<0, 0, 1, z>>, <<0, 0, 0, 1>>>>

\* transform.Rotate by a quarter turn about the z axis or the y axis
RotateQuarter(axis) ==
    IF axis = "z"
    THEN <<<<0, -1, 0, 0>>, <<1, 0, 0, 0>>, <<0, 0, 1, 0>>, <<0, 0, 0, 1>>>>
    ELSE <<<<0, 0, 1, 0>>, <<0, 1, 0, 0>>, <<-1, 0, 0, 0>>, <<0, 0, 0, 1>>>>

\* the matrices handed to Chain: the identity, a translation, two rotations
\* and a scaling
ChainMatrices ==
    {Translate(0, 0, 0), Translate(1, 2, 3), RotateQuarter("z"), RotateQuarter("y"),
     <<<<2, 0, 0, 0>>, <<0, 3, 0, 0>>, <<0, 0, 4, 0>>, <<0, 0, 0, 1>>>>}

\* the product taken the other way round: b x a
Mul4_Swapped(a, b) ==
    [i \in 1..4 |-> [j \in 1..4 |->
        b[i][1] * a[1][j] + b[i][2] * a[2][j] + b[i][3] * a[3][j] + b[i][4] * a[4][j]]]

\* a.Mul4(b): the matrix product a x b
Mul4(a, b) ==
    [i \in 1..4 |-> [j \in 1..4 |->
        a[i][1] * b[1][j] + a[i][2] * b[2][j] + a[i][3] * b[3][j] + a[i][4] * b[4][j]]]

\* the loop of Chain: for _, other := range operations[1:] { op = op.Mul4(other) }
RECURSIVE ChainLoop(_, _)
ChainLoop(op, others) ==
    IF others = <<>> THEN op
    ELSE ChainLoop(Mul4(op, Head(others)), Tail(others))

\* Chain without its length check: no arguments give the identity
Chain_NoCheck(ops) ==
    IF Len(ops) = 0 THEN <<"value", Translate(0, 0, 0)>>
    ELSE <<"value", ChainLoop(ops[1], Tail(ops))>>

\* transform.Chain(operations...): a panic, or the value it returns
Chain(ops) ==
    IF Len(ops) = 0 THEN <<"panic", PanicChain>>
    ELSE <<"value", ChainLoop(ops[1], Tail(ops))>>

\* one call of transform.Chain with the arguments chosen initially
ChainCall ==
    /\ ~panicked
    /\ chained = <<"none">>
    /\ chained' = Chain(operations)
    /\ panicked' = (Len(operations) = 0)
    /\ lastOp' = Op("Chain", Len(operations),
                    IF Len(operations) = 0 THEN PanicChain ELSE ErrNil, <<>>, 0)
    /\ UNCHANGED <<backend, shaderVars, sceneVars, windowVars, demoVars, operations,
                   pureVars>>

\* every argument list of at most MaxChain matrices
ChainInit ==
    /\ backend = "native"
    /\ panicked = FALSE
    /\ lastOp = Op("new", 0, ErrNil, <<>>, 0)
    /\ ShaderInit
    /\ SceneInit
    /\ WindowInit
    /\ DemoIdle
    /\ operations \in UNION {[1..n -> ChainMatrices] : n \in 0..MaxChain}
    /\ chained = <<"none">>
    /\ PureIdle

ChainSpec == ChainInit /\ [][ChainCall]_vars

\* the points the matrices are compared on: the four unit vectors and a point
ChainPoints ==
    {<<1, 0, 0, 0>>, <<0, 1, 0, 0>>, <<0, 0, 1, 0>>, <<0, 0, 0, 1>>, <<1, 2, 3, 1>>}

\* the matrix m times the column vector v
TransformPoint(m, v) ==
    [i \in 1..4 |-> m[i][1] * v[1] + m[i][2] * v[2] + m[i][3] * v[3] + m[i][4] * v[4]]

\* v multiplied by the matrices of ops one after the other, the last one first:
\* M1 x (M2 x (... (Mn x v)))
RECURSIVE SequentialProduct(_, _)
SequentialProduct(ops, v) ==
    IF ops = <<>> THEN v
    ELSE TransformPoint(Head(ops), SequentialProduct(Tail(ops), v))

\* C20: Chain(M) returns M unchanged, and Chain(M1, ..., Mn) is the product
\* M1 x M2 x ... x Mn taken left to right: transforming a point by the chained
\* matrix equals multiplying it by the matrices one after the other.
C20_ChainProduct ==
    chained[1] = "value" =>
        /\ Len(operations) = 1 => chained[2] = operations[1]
        /\ \A v \in ChainPoints :
               TransformPoint(chained[2], v) = SequentialProduct(operations, v)

\* three matrices that do not commute were chained
C20_Witness ==
    /\ chained[1] = "value"
    /\ operations = <<Translate(1, 2, 3), RotateQuarter("z"), RotateQuarter("y")>>
    /\ chained[2] # ChainLoop(operations[3], <<operations[2], operations[1]>>)

\* a single matrix was chained
C20_WitnessSingle ==
    /\ chained[1] = "value"
    /\ Len(operations) = 1
    /\ chained[2] = RotateQuarter("z")

\* C21: Chain called with zero matrices panics with its precondition message
\* and returns no matrix; with one matrix or more it does not panic.
C21_ChainEmptyPanics ==
    lastOp.op = "Chain" =>
        /\ Len(operations) = 0 =>
               chained = <<"panic", PanicChain>> /\ panicked /\ lastOp.err = PanicChain
        /\ Len(operations) > 0 => chained[1] = "value" /\ ~panicked

\* Chain() was called without arguments
C21_Witness ==
    /\ lastOp.op = "Chain" /\ operations = <<>>
    /\ chained[1] = "panic" /\ panicked

----------------------------------------------------------------------------
(* decodeImage: an image is a sequence of rows, top row first, each row a   *)
(* sequence of pixels <<R, G, B, A>> with straight (non-premultiplied) alpha *)

MaxImageW == 2
MaxImageH == 3

\* the pixels of the images tried: an opaque one and a translucent one
ImagePixels == {<<255, 0, 0, 255>>, <<200, 100, 50, 128>>}

\* the images of w x h pixels
ImagesOf(w, h) == [1..h -> [1..w -> ImagePixels]]

\* the flip left out
FlipV_None(img) == img

\* imaging.FlipV(img): the rows in reverse order
FlipV(img) == [r \in 1..Len(img) |-> img[Len(img) + 1 - r]]

\* draw.Draw into an image.RGBA with draw.Src: the four bytes of a pixel, its
\* colors multiplied by its alpha
ToRGBA(p) ==
    [k \in 1..4 |-> IF k = 4 THEN p[4]
                    ELSE ((p[k] * (p[4] * 257)) \div 255) \div 256]

\* rgba.Pix of the image drawn: rows of w pixels of 4 bytes, one after the other
Pix(img, w, h) ==
    [n \in 1..(w * h * 4) |->
        ToRGBA(img[((n - 1) \div (4 * w)) + 1][(((n - 1) % (4 * w)) \div 4) + 1])
              [((n - 1) % 4) + 1]]

\* decodeImage(b) for bytes holding img; NewRGBA gives Stride = 4 * w, so the
\* stride check never fails
decodeImage(img) ==
    IF img = <<>>
    THEN [w |-> 0, h |-> 0, px |-> <<>>, err |-> ErrDecode]
    ELSE LET flipped == FlipV(img)
             w == Len(flipped[1])
             h == Len(flipped)
         IN [w |-> w, h |-> h, px |-> Pix(flipped, w, h), err |-> ErrNil]

\* one call of decodeImage on the bytes chosen initially
DecodeCall ==
    /\ ~panicked
    /\ decoded = <<"none">>
    /\ decoded' = <<"value", decodeImage(image)>>
    /\ lastOp' = Op("decodeImage", Len(image), decodeImage(image).err, <<>>, 0)
    /\ UNCHANGED <<backend, panicked, shaderVars, sceneVars, windowVars, demoVars,
                   chainVars, image, colorArg, colored>>

\* bytes that hold no image, or any image of at most MaxImageW x MaxImageH pixels
DecodeInit ==
    /\ backend \in Backends
    /\ panicked = FALSE
    /\ lastOp = Op("new", 0, ErrNil, <<>>, 0)
    /\ ShaderInit
    /\ SceneInit
    /\ WindowInit
    /\ DemoIdle
    /\ ChainIdle
    /\ image \in {<<>>} \cup UNION {ImagesOf(w, h) : w \in 1..MaxImageW, h \in 1..MaxImageH}
    /\ decoded = <<"none">>
    /\ colorArg = <<>>
    /\ colored = <<"none">>

DecodeSpec == DecodeInit /\ [][DecodeCall]_vars

\* the bytes of row r (counted from 1) of a buffer of rows of w pixels
BufferRow(px, r, w) == SubSeq(px, (r - 1) * 4 * w + 1, r * 4 * w)

\* the bytes of one row of pixels in the RGBA form of the buffer
RowBytes(row) ==
    [n \in 1..(4 * Len(row)) |-> ToRGBA(row[((n - 1) \div 4) + 1])[((n - 1) % 4) + 1]]

\* C22: for a decoded W x H image the returned buffer has W * H * 4 bytes and,
\* counting rows from 0, row r of the buffer holds the pixels of row H - 1 - r
\* of the source image (as RGBA bytes): the first row is the source's last.
C22_DecodeFlips ==
    (decoded[1] = "value" /\ decoded[2].err = ErrNil) =>
        LET h == Len(image)
            w == Len(image[1])
        IN /\ decoded[2].w = w /\ decoded[2].h = h
           /\ Len(decoded[2].px) = w * h * 4
           /\ \A r \in 0..(h - 1) :
                  BufferRow(decoded[2].px, r + 1, w) = RowBytes(image[(h - 1 - r) + 1])

\* an image of 2 x 3 pixels whose first and last rows differ was decoded
C22_Witness ==
    /\ decoded[1] = "value" /\ decoded[2].err = ErrNil
    /\ Len(image) = 3 /\ Len(image[1]) = 2
    /\ image[1] # image[3]
    /\ BufferRow(decoded[2].px, 1, 2) = RowBytes(image[3])

----------------------------------------------------------------------------
(* Color: a string is a sequence of one-character strings *)

\* the value of a hexadecimal digit, -1 for any other character
HexValue(c) == IF c = "a" THEN 10 ELSE IF c = "1" THEN 1 ELSE -1

\* the index of the first character of s at or after i that is not a space
RECURSIVE SkipSpace(_, _)
SkipSpace(s, i) == IF i <= Len(s) /\ s[i] = " " THEN SkipSpace(s, i + 1) ELSE i

\* one %x verb of fmt.Sscanf with a width, reading s from index i: spaces are
\* skipped, then one digit is required and up to `width` digits are taken
ScanHex(s, i, width) ==
    LET j == SkipSpace(s, i)
    IN IF j > Len(s) \/ HexValue(s[j]) < 0
       THEN [ok |-> FALSE, val |-> 0, next |-> j]
       ELSE IF width = 2 /\ j + 1 <= Len(s) /\ HexValue(s[j + 1]) >= 0
            THEN [ok |-> TRUE, val |-> 16 * HexValue(s[j]) + HexValue(s[j + 1]),
                  next |-> j + 2]
            ELSE [ok |-> TRUE, val |-> HexValue(s[j]), next |-> j + 1]

\* fmt.Sscanf(s, "#%<width>x%<width>x%<width>x", &c.R, &c.G, &c.B): the literal
\* '#' must match, the three verbs must each read a number; input left over
\* after the last verb is not an error
Sscanf(s, width) ==
    IF Len(s) = 0 \/ s[1] # "#" THEN [ok |-> FALSE, rgb |-> <<>>]
    ELSE LET r == ScanHex(s, 2, width)
             g == ScanHex(s, r.next, width)
             b == ScanHex(s, g.next, width)
         IN IF r.ok /\ g.ok /\ b.ok
            THEN [ok |-> TRUE, rgb |-> <<r.val, g.val, b.val>>]
            ELSE [ok |-> FALSE, rgb |-> <<>>]

\* Color(s): <<"panic">>, or <<"value", <<R, G, B, A>>>>
Color(s) ==
    LET scan == IF Len(s) = 7 THEN Sscanf(s, 2)
                ELSE IF Len(s) = 4 THEN Sscanf(s, 1)
                ELSE [ok |-> FALSE, rgb |-> <<>>]
        k == IF Len(s) = 4 THEN 17 ELSE 1
    IN IF ~scan.ok THEN <<"panic">>
       ELSE <<"value", <<(scan.rgb[1] * k) % 256, (scan.rgb[2] * k) % 256,
                         (scan.rgb[3] * k) % 256, 255>>>>

\* one call of Color on the string chosen initially
ColorCall ==
    /\ ~panicked
    /\ colored = <<"none">>
    /\ colored' = Color(colorArg)
    /\ panicked' = (Color(colorArg)[1] = "panic")
    /\ lastOp' = Op("Color", Len(colorArg), ErrNil, <<>>, 0)
    /\ UNCHANGED <<backend, shaderVars, sceneVars, windowVars, demoVars, chainVars,
                   image, decoded, colorArg>>

\* the strings tried: '#' or a digit first, then digits, other letters and spaces
ColorStrings ==
    UNION {{<<c>> \o t : c \in {"#", "a"}, t \in [1..n -> {"a", "1", "g", " "}]} :
           n \in {2, 3, 4, 6}}

ColorInit ==
    /\ backend \in Backends
    /\ panicked = FALSE
    /\ lastOp = Op("new", 0, ErrNil, <<>>, 0)
    /\ ShaderInit
    /\ SceneInit
    /\ WindowInit
    /\ DemoIdle
    /\ ChainIdle
    /\ image = <<>>
    /\ decoded = <<"none">>
    /\ colorArg \in {<<>>} \cup ColorStrings
    /\ colored = <<"none">>

ColorSpec == ColorInit /\ [][ColorCall]_vars

\* s has exactly the form #RRGGBB or #RGB with hexadecimal digits
WellFormed(s) ==
    /\ Len(s) \in {4, 7}
    /\ s[1] = "#"
    /\ \A i \in 2..Len(s) : s[i] \in {"a", "1"}

\* C23: Color(s) panics for every string that is not exactly of the form
\* #RRGGBB or #RGB with hexadecimal digits, and returns a color of alpha 0xff,
\* without panicking, for every string that is.
C23_ColorStrict ==
    colored[1] # "none" =>
        /\ ~WellFormed(colorArg) => colored[1] = "panic"
        /\ WellFormed(colorArg) => colored[1] = "value" /\ colored[2][4] = 255

----------------------------------------------------------------------------
(* Claims about the release of GPU resources *)

\* the driver calls that release an object, and the handles created so far
ReleaseFns == {"DeleteVertexArrays", "DeleteBuffers", "DeleteTextures", "DeleteProgram"}
CreatedHandles ==
    {<<"object", h>> : h \in 1..glObjectCount}
        \cup {<<"texture", t>> : t \in textures}
        \cup {<<"program", p>> : p \in 1..glProgramCount}

\* how many of the driver calls of the last method call release object h
Releases(h) ==
    Cardinality({i \in DOMAIN lastOp.calls :
                    /\ lastOp.calls[i][1] \in ReleaseFns
                    /\ lastOp.calls[i][2] = h[2]
                    /\ (lastOp.calls[i][1] = "DeleteProgram") = (h[1] = "program")
                    /\ (lastOp.calls[i][1] = "DeleteTextures") = (h[1] = "texture")})

\* C24: when the Window has been closed, every handle created by the Scene, the
\* Shader and the textures (vertex array, buffers, texture, program) has been
\* released exactly once: none twice, none left.
C24_HandlesReleased ==
    window = "closed" /\ lastOp.op = "Close" =>
        \A h \in CreatedHandles : Releases(h) = 1

----------------------------------------------------------------------------
(* Specification of the camera movement: the movement keys and the cursor *)

CameraKeys == {KeyW, KeyS, KeyA, KeyD, KeySpace}

CameraNext ==
    \/ \E initOk, createOk \in BOOLEAN :
          NewWindow(DemoWidth, DemoHeight, initOk, createOk) /\ UNCHANGED appVars
    \/ PollEvents /\ UNCHANGED appVars
    \/ PollEventsReturn /\ UNCHANGED appVars
    \/ \E key \in CameraKeys, action \in KeyActions :
          onKeyPressed(key, action) /\ UNCHANGED appVars
    \/ \E xpos \in CursorXs : onCursorPosChange(xpos, 0) /\ UNCHANGED appVars

CameraSpec == SceneSpecInit /\ [][CameraNext]_vars

MovementKeys == {KeyW, KeyS, KeyA, KeyD}

\* C25: while a movement key is held the camera position moves once per frame
\* (W/S by +0.5/-0.5 times front, D/A by +0.5/-0.5 times the normalised cross
\* product of front and up), and it does not change in a frame in which no
\* movement key is held.  A frame is one call of PollEvents: a second event of
\* the same call does not move the camera again, a call that returns without
\* an event has moved it, and no step moves it while no movement key is held.
C25_MoveOncePerFrame ==
    [][/\ (polling /\ lastOp.op = "onKeyPressed" /\ pressedKeys \cap MovementKeys # {})
              => camMoves' = camMoves
       /\ ~(/\ polling /\ ~polling' /\ lastOp.op = "PollEvents"
            /\ pressedKeys \cap MovementKeys # {})
       /\ pressedKeys' \cap MovementKeys = {} => camMoves' = camMoves]_vars

----------------------------------------------------------------------------
(* Claims about non-indexed triangle lists *)

\* C26: in the native backend, after one AddTriangles(vertices, indices) call
\* with an empty index array on a fresh Scene, Draw issues one non-indexed draw
\* whose vertex count is len(vertices)/8, the number of vertices uploaded in the
\* 8-float layout AddTriangles configures.
C26_DrawTriangleList ==
    (DrewOk /\ backend = "native" /\ addTrianglesCalls = 1 /\ addVerticesCalls = 0
       /\ lastIndicesLen = 0 /\ glVboLen = lastVerticesLen /\ vboSize > 0)
        => DrawCalls = <<Call("DrawArrays", lastVerticesLen \div 8)>>

----------------------------------------------------------------------------
(* Claims about the pressed-key set *)

AllKeys == {KeyEscape, KeyF1, KeyF2, KeyF10, KeyW, KeyS, KeyA, KeyD, KeySpace}

\* C27: a key is in Window.pressedKeys iff the most recent Press-or-Release
\* event for it was a Press.  Step by step: a Press event puts its key in the
\* set, a Release event takes it out, a Repeat event leaves it as it was, no
\* event changes the membership of another key, and nothing but a key event
\* (or a new Window, which starts with the empty set) changes the set.
C27_PressedKeys ==
    [][IF lastOp'.op = "onKeyPressed"
       THEN LET k == lastKey'[1]
                a == lastKey'[2]
            IN /\ a = Press => k \in pressedKeys'
               /\ a = Release => k \notin pressedKeys'
               /\ a = Repeat => (k \in pressedKeys') = (k \in pressedKeys)
               /\ \A j \in AllKeys \ {k} : (j \in pressedKeys') = (j \in pressedKeys)
       ELSE lastOp'.op # "NewWindow" => pressedKeys' = pressedKeys]_vars

\* a key has been released while another one is still held
C27_Witness ==
    /\ lastOp.op = "onKeyPressed"
    /\ lastKey[2] = Release /\ lastKey[1] \notin pressedKeys
    /\ pressedKeys # {}

\* a Repeat event of a key that is not held has left it out of the set
C27_WitnessRepeat ==
    /\ lastOp.op = "onKeyPressed"
    /\ lastKey[2] = Repeat /\ lastKey[1] \notin pressedKeys

----------------------------------------------------------------------------
(* Claims about the first cursor event *)

\* the step is a cursor-position event delivered by glfw.PollEvents()
CursorEvent == polling /\ polling' /\ lastOp'.op = "onCursorPosChange"

\* C28: the first cursor-position event after NewWindow leaves yaw and pitch
\* unchanged whatever its coordinates; an event after it changes them by
\* sensitivity times the cursor delta since the event before it (the pitch
\* within its limits).  The camera front is NewCamera's until the first event,
\* which sets it from yaw and pitch.
C28_FirstCursorEvent ==
    [][CursorEvent =>
          IF camFront = <<NewCameraYaw, 0>>
          THEN yaw' = yaw /\ pitch' = pitch
          ELSE /\ yaw' = yaw + (lastX' - lastX) * sensitivity
               /\ pitch' = ClampPitch(pitch + (lastY - lastY') * sensitivity)]_vars

----------------------------------------------------------------------------
(* Claims about the WebGL demo *)

====
